---- MODULE Spec2Model ----
(***************************************************************************)
(* Model of satveg_api.py: the Series client (get_json, get, from_csv) and *)
(* the free function to_learn.  The remote SATVeg service and the pandas   *)
(* operations the code calls are modelled by what they do on the values    *)
(* the code hands them.                                                    *)
(***************************************************************************)
EXTENDS Integers, Sequences, FiniteSets, TLC

VARIABLES self, pc, op, input_data, sent, outcomes, response, result, learn

vars == <<self, pc, op, input_data, sent, outcomes, response, result, learn>>

(* ------------------------------ bounds --------------------------------- *)

\* longest input (rows of the csv file) a call is given
MaxPoints == 2

\* longest listaSerie / listaDatas the remote service answers with
MaxLen == 2

(* --------------------------- input universe ---------------------------- *)

\* the points a caller supplies: latitude, longitude and a crop label
Points ==
    { [latitude |-> -12, longitude |-> -55, label |-> "soja"],
      [latitude |-> -23, longitude |-> -47, label |-> "milho"] }

\* observation dates the service knows, oldest first
Dates == <<"2020-01-01", "2020-01-17", "2020-02-02", "2020-02-18">>

\* exceptions requests.get can raise
TransportExceptions == {"Timeout", "ConnectionError"}

\* status codes the service answers with
StatusCodes == {200, 401, 404}

(* ------------------------- values and results -------------------------- *)

\* a call's outcome: nothing yet, a returned value, or a raised exception
NoResult == [kind |-> "none"]

Return(v) == [kind |-> "return", value |-> v]

Raise(e) == [kind |-> "raise", exc |-> e]

\* the empty dict {}
EmptyDict == <<>>

(* --------------------------- pandas.DataFrame --------------------------- *)

\* a cell holding a value, and the missing cell (NaN)
Cell(v) == [nan |-> FALSE, value |-> v]

NaN == [nan |-> TRUE, value |-> <<>>]

\* a frame: ordered column names, and rows of cells in column order;
\* the index is the default RangeIndex (a row's position)
Frame(cols, rows) == [columns |-> cols, rows |-> rows]

HasColumn(df, c) == \E j \in 1..Len(df.columns) : df.columns[j] = c

ColIndex(df, c) == CHOOSE j \in 1..Len(df.columns) : df.columns[j] = c

\* df[c] as the list of its cells
Column(df, c) == [i \in 1..Len(df.rows) |-> df.rows[i][ColIndex(df, c)]]

\* DataFrame.join raises when both frames have a column of the same name
Overlap(left, right) ==
    \E a \in 1..Len(left.columns), b \in 1..Len(right.columns) :
        left.columns[a] = right.columns[b]

\* left.join(right): a left join on the index
Join(left, right) ==
    Frame(left.columns \o right.columns,
          [i \in 1..Len(left.rows) |->
              left.rows[i] \o
              (IF i <= Len(right.rows)
                 THEN right.rows[i]
                 ELSE [j \in 1..Len(right.columns) |-> NaN])])

\* a sequence without its j-th element
SeqWithout(s, j) ==
    [i \in 1..(Len(s) - 1) |-> IF i < j THEN s[i] ELSE s[i + 1]]

\* df.drop(c, axis=1)
Drop(df, c) ==
    LET j == ColIndex(df, c)
    IN  Frame(SeqWithout(df.columns, j),
              [i \in 1..Len(df.rows) |-> SeqWithout(df.rows[i], j)])

\* the keys of the result dict get_json returns, in the order it writes them
ResultKeys == <<"success", "status_code", "message", "data">>

\* pandas.DataFrame(list of dicts): no columns at all for an empty list
DataFrameOfDicts(dicts) ==
    IF Len(dicts) = 0
      THEN Frame(<<>>, <<>>)
      ELSE Frame(ResultKeys,
                 [i \in 1..Len(dicts) |->
                     [j \in 1..Len(ResultKeys) |-> Cell(dicts[i][ResultKeys[j]])]])

\* the keys a payload can carry, in the order the service writes them
PayloadKeys == <<"listaSerie", "listaDatas">>

RECURSIVE KeysPresent(_, _)
\* the payload keys some dict of the list carries, in order
KeysPresent(dicts, j) ==
    IF j > Len(PayloadKeys) THEN <<>>
    ELSE (IF \E i \in 1..Len(dicts) : PayloadKeys[j] \in DOMAIN dicts[i]
            THEN <<PayloadKeys[j]>> ELSE <<>>) \o KeysPresent(dicts, j + 1)

\* the columns of column.apply(pandas.Series) mutated: taken from the first
\* dict alone
SeriesColumnsFirstOnly(dicts) ==
    KeysPresent(<<dicts[1]>>, 1)

\* the columns of column.apply(pandas.Series): the union of the dicts' keys
SeriesColumns(dicts) ==
    KeysPresent(dicts, 1)

\* column.apply(pandas.Series): each dict becomes a row, its keys the columns;
\* a row has NaN where its dict lacks the key
ApplySeries(column) ==
    LET dicts == [i \in 1..Len(column) |-> column[i].value]
        keys  == SeriesColumns(dicts)
    IN  Frame(keys,
              [i \in 1..Len(dicts) |->
                  [j \in 1..Len(keys) |->
                      IF keys[j] \in DOMAIN dicts[i]
                        THEN Cell(dicts[i][keys[j]])
                        ELSE NaN]])

(* ------------------------------- Series -------------------------------- *)

\* Series.__init__ with its defaults
SeriesInit(api_token) ==
    [api_token        |-> api_token,
     profile_type     |-> "ndvi",
     satellite        |-> "terra",
     pre_filter       |-> 3,
     filter           |-> "None",
     filter_parameter |-> "None",
     url              |-> "https://api.cnptia.embrapa.br/satveg/v1/series"]

\* the request get_json sends: one GET with the bearer header and the parameters
Request(s, latitude, longitude) ==
    [url     |-> s.url,
     headers |-> [Authorization |-> <<"Bearer", s.api_token>>],
     params  |-> [tipoPerfil      |-> s.profile_type,
                  satelite        |-> s.satellite,
                  latitude        |-> latitude,
                  longitude       |-> longitude,
                  preFiltro       |-> s.pre_filter,
                  filtro          |-> s.filter,
                  parametroFiltro |-> s.filter_parameter]]

\* json.loads on a response text, a token list: an object is "{", then keys
\* each followed by its value, then "}"; anything else is not JSON
json_loads(text) ==
    IF /\ Len(text) = 6
       /\ text[1] = "{"
       /\ text[6] = "}"
      THEN Return((text[2] :> text[3]) @@ (text[4] :> text[5]))
      ELSE Raise("JSONDecodeError")

\* get_json mutated: a timeout reported apart from the other transport errors
get_json_timeout_apart(outcome) ==
    IF outcome.kind = "exception"
      THEN Return([success |-> FALSE,
                   status_code |-> IF outcome.exc = "Timeout" THEN 504 ELSE 408,
                   message |-> "Erro de conexão.",
                   data |-> EmptyDict])
    ELSE IF outcome.status_code = 401
      THEN Return([success |-> FALSE, status_code |-> 401,
                   message |-> "Credenciais inválidas. Verifique se você forneceu o token de autenticação correto.",
                   data |-> EmptyDict])
    ELSE IF outcome.status_code = 200
      THEN LET body == json_loads(outcome.text)
           IN  IF body.kind = "raise" THEN body
               ELSE Return([success |-> TRUE, status_code |-> 200,
                            message |-> "Sucesso.", data |-> body.value])
    ELSE Return([success |-> FALSE, status_code |-> outcome.status_code,
                 message |-> "A requisição não pode ser processada.",
                 data |-> EmptyDict])

\* get_json mutated: the 401 branch missing
get_json_no_401(outcome) ==
    IF outcome.kind = "exception"
      THEN Return([success |-> FALSE, status_code |-> 408,
                   message |-> "Erro de conexão.", data |-> EmptyDict])
    ELSE IF outcome.status_code = 200
      THEN LET body == json_loads(outcome.text)
           IN  IF body.kind = "raise" THEN body
               ELSE Return([success |-> TRUE, status_code |-> 200,
                            message |-> "Sucesso.", data |-> body.value])
    ELSE Return([success |-> FALSE, status_code |-> outcome.status_code,
                 message |-> "A requisição não pode ser processada.",
                 data |-> EmptyDict])

\* get_json after requests.get: what it returns, or raises, for the outcome
\* of the remote call (an exception of requests.get, or a response)
get_json(outcome) ==
    IF outcome.kind = "exception"
      THEN Return([success |-> FALSE, status_code |-> 408,
                   message |-> "Erro de conexão.", data |-> EmptyDict])
    ELSE IF outcome.status_code = 401
      THEN Return([success |-> FALSE, status_code |-> 401,
                   message |-> "Credenciais inválidas. Verifique se você forneceu o token de autenticação correto.",
                   data |-> EmptyDict])
    ELSE IF outcome.status_code = 200
      THEN LET body == json_loads(outcome.text)
           IN  IF body.kind = "raise" THEN body
               ELSE Return([success |-> TRUE, status_code |-> 200,
                            message |-> "Sucesso.", data |-> body.value])
    ELSE Return([success |-> FALSE, status_code |-> outcome.status_code,
                 message |-> "A requisição não pode ser processada.",
                 data |-> EmptyDict])

\* the input frame of get: one row, with a label column unless label is None
GetInput(p, withLabel) ==
    IF withLabel
      THEN Frame(<<"label", "latitude", "longitude">>,
                 << <<Cell(p.label), Cell(p.latitude), Cell(p.longitude)>> >>)
      ELSE Frame(<<"latitude", "longitude">>,
                 << <<Cell(p.latitude), Cell(p.longitude)>> >>)

\* pandas.read_csv of a file whose rows are the points ps
ReadCsv(ps, withLabel) ==
    IF withLabel
      THEN Frame(<<"label", "latitude", "longitude">>,
                 [i \in 1..Len(ps) |->
                     <<Cell(ps[i].label), Cell(ps[i].latitude), Cell(ps[i].longitude)>>])
      ELSE Frame(<<"latitude", "longitude">>,
                 [i \in 1..Len(ps) |->
                     <<Cell(ps[i].latitude), Cell(ps[i].longitude)>>])

\* the end of get and from_csv: the responses as a frame, the payloads
\* expanded into columns, the data column dropped, all joined to the input
BuildTable(input, responses) ==
    LET response_data == DataFrameOfDicts(responses)
    IN  IF ~HasColumn(response_data, "data") THEN Raise("KeyError")
        ELSE LET expanded == ApplySeries(Column(response_data, "data"))
             IN  IF Overlap(response_data, expanded) THEN Raise("ValueError")
                 ELSE LET dropped == Drop(Join(response_data, expanded), "data")
                      IN  IF Overlap(input, dropped) THEN Raise("ValueError")
                          ELSE Return(Join(input, dropped))

(* ------------------------------ to_learn ------------------------------- *)

RECURSIVE SuccessRows(_, _)
\* the positions i..n of the rows of data whose success cell is True
SuccessRows(data, i) ==
    IF i > Len(data.rows) THEN <<>>
    ELSE (IF data.rows[i][ColIndex(data, "success")].value = TRUE
            THEN <<i>> ELSE <<>>) \o SuccessRows(data, i + 1)

\* the row selection mutated: only the first successful row is kept
LearnRowsFirstOnly(data) ==
    LET all == SuccessRows(data, 1)
    IN  IF Len(all) = 0 THEN <<>> ELSE <<all[1]>>

\* data.loc[data['success'] == True], as the positions of the rows kept
LearnRows(data) == SuccessRows(data, 1)

RECURSIVE MaxLength(_, _)
\* the length of the longest of the lists i..n
MaxLength(lists, i) ==
    IF i > Len(lists) THEN 0
    ELSE LET rest == MaxLength(lists, i + 1)
         IN  IF Len(lists[i]) > rest THEN Len(lists[i]) ELSE rest

\* pandas.DataFrame(lists, columns=columns): rows padded with NaN to the
\* longest list; raises unless there are as many columns as that
DataFrameOfLists(lists, columns) ==
    IF Len(columns) # MaxLength(lists, 1) THEN Raise("ValueError")
    ELSE Return(Frame(columns,
                      [i \in 1..Len(lists) |->
                          [j \in 1..Len(columns) |->
                              IF j <= Len(lists[i]) THEN Cell(lists[i][j]) ELSE NaN]]))

\* the label values mutated: learn_data['label'] inserted as a Series, which
\* pandas aligns on the index, so row i gets the label of source row i, or
\* NaN when that row was not kept
LearnLabelsByIndex(data, kept) ==
    [i \in 1..Len(kept) |->
        IF \E m \in 1..Len(kept) : kept[m] = i
          THEN data.rows[i][ColIndex(data, "label")]
          ELSE NaN]

\* the label values inserted: learn_data['label'].to_list()
LearnLabels(data, kept) ==
    [i \in 1..Len(kept) |-> data.rows[kept[i]][ColIndex(data, "label")]]

\* the header mutated: the dates of the last successful row
LearnHeaderLast(data, kept) ==
    data.rows[kept[Len(kept)]][ColIndex(data, "listaDatas")].value

\* the header: learn_data.iloc[0]['listaDatas']
LearnHeader(data, kept) ==
    data.rows[kept[1]][ColIndex(data, "listaDatas")].value

\* response_data.insert(loc=0, column='label', value=labels)
InsertLabel(df, labels) ==
    Frame(<<"label">> \o df.columns,
          [i \in 1..Len(df.rows) |-> <<labels[i]>> \o df.rows[i]])

to_learn(data) ==
    LET kept == LearnRows(data)
    IN  IF Len(kept) = 0 THEN Raise("Exception")
        ELSE LET series == [i \in 1..Len(kept) |->
                                data.rows[kept[i]][ColIndex(data, "listaSerie")].value]
                 response_data == DataFrameOfLists(series, LearnHeader(data, kept))
             IN  IF response_data.kind = "raise" THEN response_data
                 ELSE IF HasColumn(data, "label")
                   THEN Return(InsertLabel(response_data.value, LearnLabels(data, kept)))
                   ELSE response_data

(* -------------------------- the remote service -------------------------- *)

\* the index values the service holds for a point, newest value last
ServiceSerie(request, len) ==
    [j \in 1..len |->
        (IF request.params.latitude = -12 THEN 600 ELSE 300) + j]

\* the dates the service answers with: oldest first for one point, newest
\* first for the other
ServiceDatas(request, len) ==
    [j \in 1..len |->
        IF request.params.latitude = -12 THEN Dates[j] ELSE Dates[len + 1 - j]]

\* the text of a well-formed answer
JsonText(serie, datas) ==
    <<"{", "listaSerie", serie, "listaDatas", datas, "}">>

\* texts that are not JSON: an error page, a truncated answer
BadTexts == { <<"<html>", "502 Bad Gateway", "</html>">>, <<"{", "listaSerie">> }

\* the texts a response to the request can carry: any of them with status
\* 200, an error page or a whole series with the other statuses
ResponseTexts(request, status_code) ==
    IF status_code = 200
      THEN BadTexts \cup
           { JsonText(ServiceSerie(request, ls), ServiceDatas(request, ld)) :
               ls \in 0..MaxLen, ld \in 0..MaxLen }
      ELSE { <<"<html>", "502 Bad Gateway", "</html>">>,
             JsonText(ServiceSerie(request, MaxLen), ServiceDatas(request, MaxLen)) }

(* ------------------------------- actions -------------------------------- *)

Init ==
    /\ self = SeriesInit("token")
    /\ pc = "idle"
    /\ op = "none"
    /\ input_data = Frame(<<>>, <<>>)
    /\ sent = <<>>
    /\ outcomes = <<>>
    /\ response = <<>>
    /\ result = NoResult
    /\ learn = NoResult

\* the caller calls get_json(latitude, longitude); the two arguments are kept
\* as a one-row frame, as get keeps them
CallGetJson ==
    /\ pc = "idle"
    /\ \E p \in Points :
          input_data' = GetInput(p, FALSE)
    /\ op' = "get_json"
    /\ pc' = "loop"
    /\ UNCHANGED <<self, sent, outcomes, response, result, learn>>

\* the caller calls get(latitude, longitude, label)
CallGet ==
    /\ pc = "idle"
    /\ \E p \in Points, withLabel \in BOOLEAN :
          input_data' = GetInput(p, withLabel)
    /\ op' = "get"
    /\ pc' = "loop"
    /\ UNCHANGED <<self, sent, outcomes, response, result, learn>>

\* the sequences of points of length 0..MaxPoints
PointLists ==
    UNION { [1..n -> Points] : n \in 0..MaxPoints }

\* the caller calls from_csv(file)
CallFromCsv ==
    /\ pc = "idle"
    /\ \E ps \in PointLists, withLabel \in BOOLEAN :
          input_data' = ReadCsv(ps, withLabel)
    /\ op' = "from_csv"
    /\ pc' = "loop"
    /\ UNCHANGED <<self, sent, outcomes, response, result, learn>>

\* the coordinates of the input row the loop is at
NextRow == input_data.rows[Len(response) + 1]

\* get_json up to requests.get: the request for the next input row goes out
SendRequest ==
    /\ pc = "loop"
    /\ Len(response) < Len(input_data.rows)
    /\ sent' = Append(sent,
                      Request(self,
                              NextRow[ColIndex(input_data, "latitude")].value,
                              NextRow[ColIndex(input_data, "longitude")].value))
    /\ pc' = "wait"
    /\ UNCHANGED <<self, op, input_data, outcomes, response, result, learn>>

\* get_json from requests.get on, for the outcome of the remote call: its
\* dict goes to the caller (get_json) or to the list (get, from_csv); what it
\* raises ends the call
Receive(outcome) ==
    LET r == get_json(outcome)
    IN  /\ outcomes' = Append(outcomes, outcome)
        /\ IF r.kind = "raise"
             THEN /\ result' = r
                  /\ pc' = "raised"
                  /\ UNCHANGED response
             ELSE /\ response' = Append(response, r.value)
                  /\ IF op = "get_json"
                       THEN /\ result' = r
                            /\ pc' = "returned"
                       ELSE /\ pc' = "loop"
                            /\ UNCHANGED result
        /\ UNCHANGED <<self, op, input_data, sent, learn>>

\* requests.get raises
RequestRaises ==
    /\ pc = "wait"
    /\ \E e \in TransportExceptions :
          Receive([kind |-> "exception", exc |-> e])

\* requests.get returns a response
RequestReturns ==
    /\ pc = "wait"
    /\ \E s \in StatusCodes :
       \E t \in ResponseTexts(sent[Len(sent)], s) :
          Receive([kind |-> "response", status_code |-> s, text |-> t])

\* get and from_csv after the loop: the table is built and returned
Finish ==
    /\ pc = "loop"
    /\ op \in {"get", "from_csv"}
    /\ Len(response) = Len(input_data.rows)
    /\ result' = BuildTable(input_data, response)
    /\ pc' = IF result'.kind = "raise" THEN "raised" ELSE "returned"
    /\ UNCHANGED <<self, op, input_data, sent, outcomes, response, learn>>

\* the caller hands the table it got to to_learn
ToLearn ==
    /\ pc = "returned"
    /\ op \in {"get", "from_csv"}
    /\ learn = NoResult
    /\ learn' = to_learn(result.value)
    /\ UNCHANGED <<self, pc, op, input_data, sent, outcomes, response, result>>

Next ==
    \/ CallGetJson
    \/ CallGet
    \/ CallFromCsv
    \/ SendRequest
    \/ RequestRaises
    \/ RequestReturns
    \/ Finish
    \/ ToLearn

Spec == Init /\ [][Next]_vars

(* ------------------------- notions the claims use ----------------------- *)

\* the call is one of the batch operations
Batch == op \in {"get", "from_csv"}

\* the call has ended, by returning or by raising
Ended == pc \in {"returned", "raised"}

\* the number of input points
NPoints == Len(input_data.rows)

\* the k-th lookup ended in one of the failure results
Failed(k) == response[k].success = FALSE

\* the input rows whose lookup succeeded, in input order
Succeeded == { k \in 1..Len(response) : response[k].success = TRUE }

\* the i-th successful input row
NthSucceeded(i) ==
    CHOOSE k \in Succeeded : Cardinality({ m \in Succeeded : m <= k }) = i

\* the longest listaSerie among the successful rows
LongestSerie ==
    CHOOSE n \in 0..MaxLen :
        /\ \A k \in Succeeded : Len(response[k].data.listaSerie) <= n
        /\ \E k \in Succeeded : Len(response[k].data.listaSerie) = n

\* the dates of the first successful row
FirstDatas == response[NthSucceeded(1)].data.listaDatas

\* the names of the table's columns after the input echo and the envelope
PayloadColumnSet(t) ==
    { t.columns[j] : j \in 1..Len(t.columns) } \
        {"label", "latitude", "longitude", "success", "status_code", "message"}

\* all the dates of all the rows' series
AllDates ==
    UNION { { response[k].data.listaDatas[j] :
                j \in 1..Len(response[k].data.listaDatas) } : k \in Succeeded }

\* the cell of row i of table t under the column named c
CellAt(t, i, c) == t.rows[i][ColIndex(t, c)]

\* to_learn was called and has returned a table
Learned == learn.kind = "return"

\* the number of columns before the date columns in the table to_learn returns
LabelOffset == IF HasColumn(result.value, "label") THEN 1 ELSE 0

(* ------------------------------- claims --------------------------------- *)

\* C1: get_json never raises: every outcome of the remote call, a status-200
\* response whose text is not JSON included, has given a result dict, and
\* the dict is one of the four combinations of success and status
C1_LookupNeverRaises ==
    /\ Len(response) = Len(outcomes)
    /\ \A k \in 1..Len(response) :
          \/ response[k].success = FALSE /\ response[k].status_code = 408
          \/ response[k].success = FALSE /\ response[k].status_code = 401
          \/ response[k].success = TRUE /\ response[k].status_code = 200
          \/ /\ response[k].success = FALSE
             /\ outcomes[k].kind = "response"
             /\ response[k].status_code = outcomes[k].status_code

\* C6: whatever exception requests.get raised, get_json returned the one
\* connection-error result (success False, 408, 'Erro de conexão.', empty
\* data), and the exception did not end the call
C6_TransportFailureCollapsed ==
    \A k \in 1..Len(outcomes) :
        outcomes[k].kind = "exception" =>
            /\ k <= Len(response)
            /\ response[k].success = FALSE
            /\ response[k].status_code = 408
            /\ response[k].message = "Erro de conexão."
            /\ DOMAIN response[k].data = {}
            /\ ~(pc = "raised" /\ result.exc \in TransportExceptions)

\* C6's case: two lookups met different transport exceptions and both gave
\* a result
C6_Witness ==
    /\ Len(response) = 2
    /\ outcomes[1].kind = "exception"
    /\ outcomes[2].kind = "exception"
    /\ outcomes[1].exc # outcomes[2].exc
    /\ response[1] = response[2]

\* C7: a received response is classified by its status s: 401 gives the
\* invalid-credentials result, 200 with a JSON text gives the success result
\* whose data is the object the text writes (lengths of the two lists not
\* compared), any other s gives the could-not-be-processed result with
\* status s; so status_code = s, success iff s = 200, data empty unless success
C7_ResponseClassified ==
    \A k \in 1..Len(outcomes) :
        (/\ outcomes[k].kind = "response"
         /\ (outcomes[k].status_code = 200 => outcomes[k].text \notin BadTexts)) =>
            LET s == outcomes[k].status_code
                r == response[k]
            IN  /\ k <= Len(response)
                /\ r.status_code = s
                /\ r.success = (s = 200)
                /\ r.success = FALSE => DOMAIN r.data = {}
                /\ s = 401 =>
                      r.message = "Credenciais inválidas. Verifique se você forneceu o token de autenticação correto."
                /\ s = 200 =>
                      /\ r.message = "Sucesso."
                      /\ DOMAIN r.data = {"listaSerie", "listaDatas"}
                      /\ outcomes[k].text = JsonText(r.data.listaSerie, r.data.listaDatas)
                /\ s \notin {200, 401} =>
                      r.message = "A requisição não pode ser processada."

\* C7's case: a 401 and a 200 whose two lists differ in length were both
\* classified
C7_Witness ==
    /\ Len(response) = 2
    /\ outcomes[1].kind = "response" /\ outcomes[1].status_code = 401
    /\ outcomes[2].kind = "response" /\ outcomes[2].status_code = 200
    /\ Len(response[2].data.listaSerie) # Len(response[2].data.listaDatas)

\* C2: a batch call over any n >= 0 points, whatever the lookups' outcomes,
\* ends by returning a table of exactly n rows, row i echoing the i-th input
\* point and carrying the success, status_code and message of its lookup
C2_RowPerPoint ==
    (Batch /\ Ended) =>
        /\ pc = "returned"
        /\ Len(result.value.rows) = NPoints
        /\ \A i \in 1..NPoints :
              /\ \A j \in 1..Len(input_data.columns) :
                    CellAt(result.value, i, input_data.columns[j]) = input_data.rows[i][j]
              /\ CellAt(result.value, i, "success").value = response[i].success
              /\ CellAt(result.value, i, "status_code").value = response[i].status_code
              /\ CellAt(result.value, i, "message").value = response[i].message

\* C3: once the lookup of some point has failed (408, 401 or another
\* non-200 status), the batch still looks up every later point and ends by
\* returning the table
C3_FailureIsolation ==
    (Batch /\ Ended /\ \E k \in 1..Len(response) : Failed(k)) =>
        /\ pc = "returned"
        /\ Len(sent) = NPoints
        /\ Len(result.value.rows) = NPoints

\* C8: no retries: one request per lookup, a failed one included, so a batch
\* over n points sends exactly n requests, the k-th carrying the k-th point's
\* coordinates, and no request goes out before the outcome of the one before
\* it is recorded
C8_OneRequestPerPoint ==
    /\ Len(sent) \in {Len(outcomes), Len(outcomes) + 1}
    /\ \A k \in 1..Len(sent) :
          /\ sent[k].params.latitude = input_data.rows[k][ColIndex(input_data, "latitude")].value
          /\ sent[k].params.longitude = input_data.rows[k][ColIndex(input_data, "longitude")].value
          /\ Len(response) >= k - 1
    /\ (Batch /\ Ended) => Len(sent) = NPoints

\* C4 as the spec states it: the table has one column per distinct date of
\* the rows' series, each row holding its value for date d under d and an
\* empty cell under the dates it lacks
C4_DateColumns ==
    (Batch /\ pc = "returned") =>
        /\ PayloadColumnSet(result.value) = AllDates
        /\ \A i \in 1..NPoints : \A d \in AllDates :
              IF i \in Succeeded
                   /\ \E j \in 1..Len(response[i].data.listaDatas) :
                         response[i].data.listaDatas[j] = d
                THEN \E j \in 1..Len(response[i].data.listaDatas) :
                        /\ response[i].data.listaDatas[j] = d
                        /\ j <= Len(response[i].data.listaSerie)
                        /\ CellAt(result.value, i, d).value = response[i].data.listaSerie[j]
                ELSE CellAt(result.value, i, d).nan

\* C4 amended: the table has one column per key of the rows' payloads
\* (listaSerie and listaDatas as soon as one lookup succeeded, none when all
\* failed); a successful row holds its whole list of values and its whole
\* list of dates in them, and a failed row has both cells empty
C4_PayloadColumns ==
    (Batch /\ pc = "returned") =>
        /\ PayloadColumnSet(result.value) =
              UNION { DOMAIN response[k].data : k \in 1..NPoints }
        /\ (Succeeded # {}) =>
              PayloadColumnSet(result.value) = {"listaSerie", "listaDatas"}
        /\ \A i \in 1..NPoints : \A c \in PayloadColumnSet(result.value) :
              IF i \in Succeeded
                THEN /\ ~CellAt(result.value, i, c).nan
                     /\ CellAt(result.value, i, c).value = response[i].data[c]
                ELSE CellAt(result.value, i, c).nan

\* C4's case: of two points the first failed and the second succeeded with
\* two dates
C4_Witness ==
    /\ Batch
    /\ pc = "returned"
    /\ NPoints = 2
    /\ Failed(1)
    /\ 2 \in Succeeded
    /\ Len(response[2].data.listaDatas) = 2
    /\ CellAt(result.value, 1, "listaDatas").nan
    /\ CellAt(result.value, 1, "listaSerie").nan

\* C5 as the spec states it: to_learn raises 'no valid data' on a table
\* without a successful row; on any table with one it returns a table with
\* as many rows as successful rows and a label column iff the source has one
C5_LearnTotal ==
    (learn.kind # "none") =>
        IF Succeeded = {}
          THEN learn = Raise("Exception")
          ELSE /\ learn.kind = "return"
               /\ Len(learn.value.rows) = Cardinality(Succeeded)
               /\ HasColumn(learn.value, "label") = HasColumn(result.value, "label")

\* C5 amended: to_learn raises 'no valid data' on a table without a
\* successful row; on a table with one it returns exactly when the longest
\* successful listaSerie has as many values as the first successful row has
\* dates (else the frame constructor raises ValueError), and the table it
\* returns has as many rows as successful rows and a label column iff the
\* source has one
C5_LearnRowsAndLabel ==
    (learn.kind # "none") =>
        IF Succeeded = {}
          THEN learn = Raise("Exception")
          ELSE IF Len(FirstDatas) = LongestSerie
            THEN /\ learn.kind = "return"
                 /\ Len(learn.value.rows) = Cardinality(Succeeded)
                 /\ HasColumn(learn.value, "label") = HasColumn(result.value, "label")
            ELSE learn = Raise("ValueError")

\* C5's case: a labelled table with a failed and a successful row went
\* through to_learn, which returned one row with its label column
C5_Witness ==
    /\ Learned
    /\ NPoints = 2
    /\ Cardinality(Succeeded) = 1
    /\ HasColumn(result.value, "label")
    /\ HasColumn(learn.value, "label")
    /\ Len(learn.value.rows) = 1

\* C9 as the spec states it: on every table with a successful row, rows of
\* differing lengths or orders included, to_learn returns without raising;
\* the header is the first successful row's dates and row i holds its j-th
\* value under the j-th header column
C9_PositionalAlways ==
    (learn.kind # "none" /\ Succeeded # {}) =>
        /\ learn.kind = "return"
        /\ SubSeq(learn.value.columns, LabelOffset + 1, Len(learn.value.columns)) = FirstDatas
        /\ \A i \in 1..Cardinality(Succeeded) :
              LET serie == response[NthSucceeded(i)].data.listaSerie
              IN  \A j \in 1..Len(serie) :
                     /\ LabelOffset + j <= Len(learn.value.rows[i])
                     /\ learn.value.rows[i][LabelOffset + j].value = serie[j]

\* C9 amended: on a table with a successful row to_learn returns exactly
\* when the longest successful listaSerie has as many values as the first
\* successful row has dates, and raises ValueError otherwise; when it
\* returns, the header is the first successful row's dates, row i holds its
\* j-th value under the j-th header column whatever the row's own dates are,
\* and the cells past the end of a shorter row are empty
C9_PositionalWhenWidthsAgree ==
    (learn.kind # "none" /\ Succeeded # {}) =>
        IF Len(FirstDatas) # LongestSerie
          THEN learn = Raise("ValueError")
          ELSE /\ learn.kind = "return"
               /\ SubSeq(learn.value.columns, LabelOffset + 1, Len(learn.value.columns))
                     = FirstDatas
               /\ \A i \in 1..Cardinality(Succeeded) :
                     LET serie == response[NthSucceeded(i)].data.listaSerie
                         row   == learn.value.rows[i]
                     IN  /\ Len(row) = LabelOffset + Len(FirstDatas)
                         /\ \A j \in 1..Len(FirstDatas) :
                               IF j <= Len(serie)
                                 THEN /\ ~row[LabelOffset + j].nan
                                      /\ row[LabelOffset + j].value = serie[j]
                                 ELSE row[LabelOffset + j].nan

\* C9's case: two successful rows whose dates are in different orders, the
\* second shorter than the first, went through to_learn, which returned
C9_Witness ==
    /\ Learned
    /\ Succeeded = {1, 2}
    /\ Len(response[1].data.listaDatas) = 2
    /\ Len(response[2].data.listaDatas) = 2
    /\ response[1].data.listaDatas # response[2].data.listaDatas
    /\ Len(response[1].data.listaSerie) = 2
    /\ Len(response[2].data.listaSerie) = 1
    /\ learn.value.rows[2][LabelOffset + 2].nan

\* C10: the table to_learn returns keeps the successful rows in source
\* order, each with its own label: its row i holds the values and the label
\* of the i-th successful source row, never those of a failed or another row
C10_RowsKeepOrderAndLabel ==
    Learned =>
        /\ Len(learn.value.rows) = Cardinality(Succeeded)
        /\ \A i \in 1..Len(learn.value.rows) :
              LET k     == NthSucceeded(i)
                  serie == response[k].data.listaSerie
                  row   == learn.value.rows[i]
              IN  /\ \A j \in 1..Len(serie) : row[LabelOffset + j].value = serie[j]
                  /\ HasColumn(result.value, "label") =>
                        /\ ~row[1].nan
                        /\ row[1].value = CellAt(input_data, k, "label").value

\* C10's case: a labelled table whose first row failed and second succeeded,
\* with a value, went through to_learn, which returned
C10_Witness ==
    /\ Learned
    /\ HasColumn(result.value, "label")
    /\ NPoints = 2
    /\ Failed(1)
    /\ Succeeded = {2}
    /\ Len(response[2].data.listaSerie) = 2
    /\ learn.value.rows[1][1].value = CellAt(input_data, 2, "label").value

====
